---- MODULE Spec2Model ----
(***************************************************************************)
(* Model of lazy-panic: the segment policies (Prefix, PanicInfo, Suffix,   *)
(* Backtrace), the PanicFormat::print orchestrator, the payload renderer   *)
(* format_payload! and the hook installers.                                *)
(*                                                                         *)
(* Text is modelled as TLA+ strings, so that rendered output is compared   *)
(* byte for byte.  An Option is a sequence of length 0 (None) or 1 (Some). *)
(* A writer is any io::Write: every write statement either appends its     *)
(* whole text to the sink and returns Ok, or appends nothing and returns   *)
(* Err.                                                                    *)
(***************************************************************************)
EXTENDS Integers, Sequences, FiniteSets, TLC

VARIABLES
    backtrace_on,   \* cargo feature "backtrace-on" of this build
    hook,           \* the process-wide panic hook (std::panic::set_hook)
    lastInstalled,  \* history: the handler passed to the latest installation call
    replaced,       \* history: the latest installation replaced a different installed handler
    pc,             \* "idle", "hook", "print", "returned", "aborted"
    step,           \* position inside PanicFormat::print (index into print_order), 0 outside
    handler,        \* the hook the runtime invoked for the failure in progress
    info,           \* the panic::PanicInfo of the failure in progress
    sink,           \* bytes accepted by the Writer during this handler invocation
    stdout,         \* bytes println! delivered to stdout during this handler invocation
    writerCalls,    \* number of Self::writer() calls during this handler invocation
    calls,          \* the write_in calls made by print, in order, with their results
    trace,          \* every write statement attempted, in order: segment, text, ok
    cands,          \* payload renderer harness: the candidate type list
    rendered        \* payload renderer harness: result of format_payload!, as an Option

vars == <<backtrace_on, hook, lastInstalled, replaced, pc, step, handler, info,
          sink, stdout, writerCalls, calls, trace, cands, rendered>>

-----------------------------------------------------------------------------
(* Bounds *)

MaxCands == 3        \* longest candidate type list given to format_payload!
MaxUserFrames == 1   \* user frames on the stack above the handler machinery

-----------------------------------------------------------------------------
(* Option *)

None == <<>>
Some(x) == <<x>>
IsSome(o) == o # <<>>
Unwrap(o) == o[1]

-----------------------------------------------------------------------------
(* Text formatting, as core::fmt does it *)

RECURSIVE Concat(_)
Concat(ss) == IF ss = <<>> THEN "" ELSE Head(ss) \o Concat(Tail(ss))

RECURSIVE Spaces(_)
Spaces(n) == IF n <= 0 THEN "" ELSE " " \o Spaces(n - 1)

\* {:w} of a number: right-aligned, space padded, never truncated
PadLeft(s, w) == Spaces(w - Len(s)) \o s

\* {:w} of a string: left-aligned, space padded, never truncated
PadRight(s, w) == s \o Spaces(w - Len(s))

Digit(d) == SubSeq("0123456789abcdef", d + 1, d + 1)

\* Display of an unsigned integer: decimal, no padding
RECURSIVE FmtU(_)
FmtU(n) == IF n < 10 THEN Digit(n) ELSE FmtU(n \div 10) \o Digit(n % 10)

RECURSIVE FmtHex(_)
FmtHex(n) == IF n < 16 THEN Digit(n) ELSE FmtHex(n \div 16) \o Digit(n % 16)

\* Debug of a raw pointer: 0x followed by lower-case hex
FmtPtr(p) == "0x" \o FmtHex(p)

-----------------------------------------------------------------------------
(* Failure occurrences *)

Types == {"&str", "String", "i32"}

\* a payload: its concrete type and the Display text of its value
Payloads == { [ty |-> "&str",   text |-> "lolka"],
              [ty |-> "String", text |-> "oops"],
              [ty |-> "i32",    text |-> "5"] }

Locations == { None,
               Some([file |-> "foo.rs", line |-> 42]),
               Some([file |-> "src/main.rs", line |-> 7]) }

Infos == [location : Locations, payload : Payloads]

NoInfo == [location |-> None, payload |-> [ty |-> "", text |-> ""]]

-----------------------------------------------------------------------------
(* Payload renderer: format_payload! *)

downcast_ref(payload, p_type) == payload.ty = p_type

Display(payload) == payload.text

\* {:?} of &(dyn Any + Send): the value is not shown
DebugAny(payload) == "Any"

\* variant: only the first candidate type is tried
format_payload_first_only(payload, p_types) ==
    IF downcast_ref(payload, Head(p_types)) THEN Display(payload) ELSE DebugAny(payload)

RECURSIVE format_payload(_, _)
format_payload(payload, p_types) ==
    IF p_types = <<>> THEN DebugAny(payload)
    ELSE IF downcast_ref(payload, Head(p_types)) THEN Display(payload)
    ELSE format_payload(payload, Tail(p_types))

\* write_payload!(writer, payload, types: [...]): the text of its one write
write_payload(payload, p_types) == format_payload(payload, p_types)

-----------------------------------------------------------------------------
(* Call stacks seen by backtrace::Backtrace::new() *)

TRASH_FRAMES_NUM == 8

UsizeBytes == 8
HEX_WIDTH == UsizeBytes * 2 + 2

\* the frames of backtrace, lazy_panic and the Rust runtime on top of the stack
TrashFrames == [j \in 1..TRASH_FRAMES_NUM |-> [ip |-> j, symbols |-> <<>>]]

UserFrames ==
    { [ip |-> 4660, symbols |-> <<>>],
      [ip |-> 48879,
       symbols |-> << [name |-> Some("main::run"), file |-> Some("src/main.rs"),
                       line |-> Some(7)] >>],
      [ip |-> 255,
       symbols |-> << [name |-> None, file |-> None, line |-> None],
                      [name |-> Some("core::ops::call"), file |-> Some("ops.rs"),
                       line |-> None] >>] }

\* full stacks, and one stack shallower than the machinery depth
Stacks == { TrashFrames \o u : u \in UNION { [1..n -> UserFrames] : n \in 0..MaxUserFrames } }
          \cup { SubSeq(TrashFrames, 1, 3) }

\* Iterator::skip
Skip(s, n) == IF Len(s) <= n THEN <<>> ELSE SubSeq(s, n + 1, Len(s))

-----------------------------------------------------------------------------
(* Segment policies.  A write_in is modelled by the sequence of write       *)
(* statements it executes when none fails; each is followed by `?` or is   *)
(* the returned value, so the first failing write ends the write_in with   *)
(* Err.  W tags a write with the segment it belongs to.                    *)

W(seg, text) == [seg |-> seg, text |-> text]

Empty_Prefix_write_in == <<>>

Empty_PanicInfo_write_in(i) == <<>>

Empty_Suffix_write_in == <<>>

Empty_Backtrace_write_in == <<>>

\* variant: the prefix without its trailing space
Simple_Prefix_no_space == << W("Prefix", "Panic:") >>

Simple_Prefix_write_in == << W("Prefix", "Panic: ") >>

\* variant: a missing location renders as nothing
Simple_location_or_empty(i) ==
    IF IsSome(i.location)
    THEN Unwrap(i.location).file \o ":" \o FmtU(Unwrap(i.location).line) \o " - "
    ELSE ""

Simple_location(i) ==
    IF IsSome(i.location)
    THEN Unwrap(i.location).file \o ":" \o FmtU(Unwrap(i.location).line) \o " - "
    ELSE "unknown:0 - "

Simple_PanicInfo_write_in(i) ==
    << W("Location", Simple_location(i)),
       W("Payload", write_payload(i.payload, <<"&str", "String">>)) >>

Simple_Suffix_write_in == << W("Suffix", "\n") >>

Simple_Backtrace_write_in == <<>>

\* variant: JustError also writes the location
JustError_with_location(i) ==
    << W("Location", Simple_location(i)),
       W("Payload", write_payload(i.payload, <<"&str", "String">>)) >>

JustError_PanicInfo_write_in(i) ==
    << W("Payload", write_payload(i.payload, <<"&str", "String">>)) >>

\* the writes of the inner loop over frame.symbols(), from index idx (0-based)
RECURSIVE Debug_symbols(_, _)
Debug_symbols(symbols, idx) ==
    IF idx >= Len(symbols) THEN <<>>
    ELSE LET symbol == symbols[idx + 1] IN
         (IF idx # 0
          THEN << W("Backtrace", "\n      " \o PadRight("", HEX_WIDTH)) >>
          ELSE <<>>)
         \o (IF IsSome(symbol.name)
             THEN << W("Backtrace", " - " \o Unwrap(symbol.name)) >>
             ELSE << W("Backtrace", " - <unknown>") >>)
         \o (IF IsSome(symbol.file) /\ IsSome(symbol.line)
             THEN << W("Backtrace", "\n      " \o PadRight("", HEX_WIDTH) \o "at "
                           \o Unwrap(symbol.file) \o ":" \o FmtU(Unwrap(symbol.line))) >>
             ELSE <<>>)
         \o Debug_symbols(symbols, idx + 1)

\* the writes of the outer loop over the retained frames, from index idx (0-based)
RECURSIVE Debug_frames(_, _)
Debug_frames(frames, idx) ==
    IF idx >= Len(frames) THEN <<>>
    ELSE LET frame == frames[idx + 1] IN
         << W("Backtrace", "\n" \o PadLeft(FmtU(idx), 4) \o ": "
                   \o PadLeft(FmtPtr(frame.ip), HEX_WIDTH)) >>
         \o (IF Len(frame.symbols) = 0
             THEN << W("Backtrace", " - <unresolved>") >>
             ELSE <<>>)
         \o Debug_symbols(frame.symbols, 0)
         \o Debug_frames(frames, idx + 1)

\* variant: the trace is not closed by a line break
Debug_Backtrace_unterminated(feature, stack) ==
    IF ~feature THEN <<>>
    ELSE << W("Backtrace", "Stack backtrace:") >>
         \o Debug_frames(Skip(stack, TRASH_FRAMES_NUM), 0)

Debug_Backtrace_write_in(feature, stack) ==
    IF ~feature THEN <<>>
    ELSE << W("Backtrace", "Stack backtrace:") >>
         \o Debug_frames(Skip(stack, TRASH_FRAMES_NUM), 0)
         \o << W("Backtrace", "\n") >>

-----------------------------------------------------------------------------
(* Format profiles: impl PanicFormat for ...  A profile names the          *)
(* implementation of each role.                                            *)

Empty == [name |-> "Empty", Backtrace |-> "Empty", Prefix |-> "Empty",
          PanicInfo |-> "Empty", Suffix |-> "Empty"]

Simple == [name |-> "Simple", Backtrace |-> "Simple", Prefix |-> "Simple",
           PanicInfo |-> "Simple", Suffix |-> "Simple"]

Debug == [name |-> "Debug", Backtrace |-> "Debug", Prefix |-> "Simple",
          PanicInfo |-> "Simple", Suffix |-> "Simple"]

JustError == [name |-> "JustError", Backtrace |-> "Empty", Prefix |-> "Empty",
              PanicInfo |-> "JustError", Suffix |-> "Simple"]

\* user-defined profiles composed from the shipped role implementations
Custom == [name : {"Custom"}, Backtrace : {"Empty", "Simple", "Debug"},
           Prefix : {"Empty", "Simple"}, PanicInfo : {"Empty", "Simple", "JustError"},
           Suffix : {"Empty", "Simple"}]

Profiles == {Empty, Simple, Debug, JustError} \cup Custom

\* static dispatch <Self::Role>::write_in
Backtrace_write_in(p, feature, stack) ==
    CASE p.Backtrace = "Empty"  -> Empty_Backtrace_write_in
      [] p.Backtrace = "Simple" -> Simple_Backtrace_write_in
      [] p.Backtrace = "Debug"  -> Debug_Backtrace_write_in(feature, stack)

Prefix_write_in(p) ==
    CASE p.Prefix = "Empty"  -> Empty_Prefix_write_in
      [] p.Prefix = "Simple" -> Simple_Prefix_write_in

PanicInfo_write_in(p, i) ==
    CASE p.PanicInfo = "Empty"     -> Empty_PanicInfo_write_in(i)
      [] p.PanicInfo = "Simple"    -> Simple_PanicInfo_write_in(i)
      [] p.PanicInfo = "JustError" -> JustError_PanicInfo_write_in(i)

Suffix_write_in(p) ==
    CASE p.Suffix = "Empty"  -> Empty_Suffix_write_in
      [] p.Suffix = "Simple" -> Simple_Suffix_write_in

-----------------------------------------------------------------------------
(* The writer: io::Write *)

RECURSIVE Texts(_)
Texts(ws) == IF ws = <<>> THEN "" ELSE Head(ws).text \o Texts(Tail(ws))

\* the bytes a write_in adds to the sink when the sink accepts its first k writes
Accepted(writes, k) == Texts(SubSeq(writes, 1, k))

\* the writes a write_in attempts when the sink accepts its first k writes:
\* the k accepted ones and, if there is one more, the one that fails
RECURSIVE Attempted(_, _)
Attempted(writes, k) ==
    IF writes = <<>> THEN <<>>
    ELSE << [seg |-> Head(writes).seg, text |-> Head(writes).text, ok |-> k > 0] >>
         \o (IF k > 0 THEN Attempted(Tail(writes), k - 1) ELSE <<>>)

-----------------------------------------------------------------------------
(* Hooks *)

NoHandler == [kind |-> "none"]

\* the hook of the Rust runtime, in effect until the first installation
DefaultHook == [kind |-> "default"]

\* set_panic_message!(Profile): the closure |info| <Profile>::print(info)
FormatHook(p) == [kind |-> "format", profile |-> p]

\* set_panic_message!(prefix=>.., suffix=>.., payload_types=>..): its closure
MessageHook(prefix, suffix, p_types) ==
    [kind |-> "message", prefix |-> prefix, suffix |-> suffix, p_types |-> p_types]

HookPrefixes == {"", "Fatal: "}
HookSuffixes == {"", "!"}
HookTypes == { <<"&str">>, <<"String", "&str">> }

\* variant: a hook once installed is kept
set_hook_keep_first(old, new) == IF old = DefaultHook THEN new ELSE old

\* std::panic::set_hook: the new hook takes the place of the old one
set_hook(old, new) == new

\* the msg of the message hook
hook_msg(h, i) ==
    (IF IsSome(i.location)
     THEN Unwrap(i.location).file \o ":" \o FmtU(Unwrap(i.location).line) \o " - "
     ELSE "")
    \o format_payload(i.payload, h.p_types)

\* println!: writes the line to stdout, and panics when the write fails
println(out, text, ok) ==
    IF ok THEN [out |-> out \o text \o "\n", panicked |-> FALSE]
    ELSE [out |-> out, panicked |-> TRUE]

-----------------------------------------------------------------------------
(* PanicFormat::print *)

\* variant: the prefix is written before the backtrace
print_order_prefix_first == <<"Prefix", "Backtrace", "PanicInfo", "Suffix">>

print_order == <<"Backtrace", "Prefix", "PanicInfo", "Suffix">>

\* variant: the first Err ends print, as `?` would
after_call_propagate(ok, s) == IF ok THEN s + 1 ELSE Len(print_order) + 1

\* `let _ = ...::write_in(..)`: the result is dropped, print goes on
after_call(ok, s) == s + 1

\* variant: Empty keeps the default print
print_never_overridden(p) == FALSE

\* impl PanicFormat for Empty replaces the default print by an empty body
print_overridden(p) == p.name = "Empty"

-----------------------------------------------------------------------------
(* State machine *)

Init ==
    /\ backtrace_on \in BOOLEAN
    /\ hook = DefaultHook
    /\ lastInstalled = NoHandler
    /\ replaced = FALSE
    /\ pc = "idle"
    /\ step = 0
    /\ handler = NoHandler
    /\ info = NoInfo
    /\ sink = ""
    /\ stdout = ""
    /\ writerCalls = 0
    /\ calls = <<>>
    /\ trace = <<>>
    /\ cands = <<>>
    /\ rendered = None

invocation == <<pc, step, handler, info, sink, stdout, writerCalls, calls, trace>>
harness == <<cands, rendered>>

Install(h) ==
    /\ pc = "idle"
    /\ hook' = set_hook(hook, h)
    /\ lastInstalled' = h
    /\ replaced' = (lastInstalled # NoHandler /\ lastInstalled # h)
    /\ UNCHANGED <<backtrace_on, invocation, harness>>

\* set_panic_message!(Profile)
set_panic_message_profile == \E p \in Profiles : Install(FormatHook(p))

\* set_panic_message!(prefix=>.., suffix=>.., payload_types=>..)
set_panic_message ==
    \E prefix \in HookPrefixes, suffix \in HookSuffixes, p_types \in HookTypes :
        Install(MessageHook(prefix, suffix, p_types))

\* a failure occurs: the runtime invokes the installed hook with its PanicInfo
Panic ==
    /\ pc = "idle"
    /\ \E i \in Infos : info' = i
    /\ handler' = hook
    /\ pc' = "hook"
    /\ UNCHANGED <<backtrace_on, hook, lastInstalled, replaced, step, sink, stdout,
                   writerCalls, calls, trace, harness>>

\* no installation yet: the runtime's own hook runs
default_hook ==
    /\ pc = "hook"
    /\ handler.kind = "default"
    /\ pc' = "returned"
    /\ UNCHANGED <<backtrace_on, hook, lastInstalled, replaced, step, handler, info,
                   sink, stdout, writerCalls, calls, trace, harness>>

\* the closure of the message hook
message_hook ==
    /\ pc = "hook"
    /\ handler.kind = "message"
    /\ \E ok \in BOOLEAN :
        LET msg == hook_msg(handler, info)
            r == println(stdout, handler.prefix \o msg \o handler.suffix, ok)
        IN /\ stdout' = r.out
           /\ pc' = IF r.panicked THEN "aborted" ELSE "returned"
    /\ UNCHANGED <<backtrace_on, hook, lastInstalled, replaced, step, handler, info,
                   sink, writerCalls, calls, trace, harness>>

\* Empty::print
Empty_print ==
    /\ pc = "hook"
    /\ handler.kind = "format"
    /\ print_overridden(handler.profile)
    /\ pc' = "returned"
    /\ UNCHANGED <<backtrace_on, hook, lastInstalled, replaced, step, handler, info,
                   sink, stdout, writerCalls, calls, trace, harness>>

\* PanicFormat::print, `let mut writer = Self::writer();`
print_writer ==
    /\ pc = "hook"
    /\ handler.kind = "format"
    /\ ~print_overridden(handler.profile)
    /\ writerCalls' = writerCalls + 1
    /\ pc' = "print"
    /\ step' = 1
    /\ UNCHANGED <<backtrace_on, hook, lastInstalled, replaced, handler, info,
                   sink, stdout, calls, trace, harness>>

\* one `let _ = Self::Role::write_in(&mut writer ..)` of print: the sink accepts
\* the first k writes of the write_in; with k < Len(writes) the next one fails
call_write_in(role, impl, writes) ==
    /\ pc = "print"
    /\ step \in DOMAIN print_order
    /\ print_order[step] = role
    /\ \E k \in 0..Len(writes) :
        LET ok == k = Len(writes)
            after == sink \o Accepted(writes, k)
            next == after_call(ok, step)
        IN /\ sink' = after
           /\ trace' = trace \o Attempted(writes, k)
           /\ calls' = Append(calls, [role |-> role, impl |-> impl, ok |-> ok,
                                      before |-> sink, after |-> after])
           /\ IF next \in DOMAIN print_order
              THEN pc' = "print" /\ step' = next
              ELSE pc' = "returned" /\ step' = 0
    /\ UNCHANGED <<backtrace_on, hook, lastInstalled, replaced, handler, info,
                   stdout, writerCalls, harness>>

print_Backtrace ==
    /\ handler.kind = "format"
    /\ \E stack \in Stacks :
        call_write_in("Backtrace", handler.profile.Backtrace,
                      Backtrace_write_in(handler.profile, backtrace_on, stack))

print_Prefix ==
    /\ handler.kind = "format"
    /\ call_write_in("Prefix", handler.profile.Prefix, Prefix_write_in(handler.profile))

print_PanicInfo ==
    /\ handler.kind = "format"
    /\ call_write_in("PanicInfo", handler.profile.PanicInfo,
                     PanicInfo_write_in(handler.profile, info))

print_Suffix ==
    /\ handler.kind = "format"
    /\ call_write_in("Suffix", handler.profile.Suffix, Suffix_write_in(handler.profile))

\* the hook has returned: the failure goes on unwinding, the writer is gone
Resume ==
    /\ pc = "returned"
    /\ pc' = "idle"
    /\ step' = 0
    /\ handler' = NoHandler
    /\ info' = NoInfo
    /\ sink' = ""
    /\ stdout' = ""
    /\ writerCalls' = 0
    /\ calls' = <<>>
    /\ trace' = <<>>
    /\ UNCHANGED <<backtrace_on, hook, lastInstalled, replaced, harness>>

Next ==
    \/ set_panic_message_profile
    \/ set_panic_message
    \/ Panic
    \/ default_hook
    \/ message_hook
    \/ Empty_print
    \/ print_writer
    \/ print_Backtrace
    \/ print_Prefix
    \/ print_PanicInfo
    \/ print_Suffix
    \/ Resume

Spec == Init /\ [][Next]_vars

-----------------------------------------------------------------------------
(* Payload renderer harness: format_payload! applied to every payload and  *)
(* every candidate type list of bounded length.                            *)

CandLists == UNION { [1..n -> Types] : n \in 1..MaxCands }

InitPayload ==
    /\ backtrace_on = FALSE
    /\ hook = DefaultHook
    /\ lastInstalled = NoHandler
    /\ replaced = FALSE
    /\ pc = "idle"
    /\ step = 0
    /\ handler = NoHandler
    /\ info \in Infos
    /\ sink = ""
    /\ stdout = ""
    /\ writerCalls = 0
    /\ calls = <<>>
    /\ trace = <<>>
    /\ cands \in CandLists
    /\ rendered = None

render_payload ==
    /\ rendered = None
    /\ rendered' = Some(format_payload(info.payload, cands))
    /\ UNCHANGED <<backtrace_on, hook, lastInstalled, replaced, invocation, cands>>

NextPayload == render_payload

SpecPayload == InitPayload /\ [][NextPayload]_vars

-----------------------------------------------------------------------------
(* Properties *)

\* the default print of PanicFormat is running or has run for this failure
InPrint == handler.kind = "format" /\ handler.profile.name # "Empty"

Finished == pc = "returned"

AllOk == \A j \in DOMAIN calls : calls[j].ok

StringTyped(payload) == payload.ty \in {"&str", "String"}

RoleRank(role) ==
    CASE role = "Backtrace" -> 1 [] role = "Prefix" -> 2
      [] role = "PanicInfo" -> 3 [] role = "Suffix" -> 4

SegRank(seg) ==
    CASE seg = "Backtrace" -> 1 [] seg = "Prefix" -> 2 [] seg = "Location" -> 3
      [] seg = "Payload" -> 4 [] seg = "Suffix" -> 5

RECURSIVE OkTexts(_)
OkTexts(t) ==
    IF t = <<>> THEN ""
    ELSE (IF Head(t).ok THEN Head(t).text ELSE "") \o OkTexts(Tail(t))

AttemptedSeg(seg) == \E j \in DOMAIN trace : trace[j].seg = seg
WrittenSeg(seg) == \E j \in DOMAIN trace : trace[j].seg = seg /\ trace[j].ok
FailedSeg(seg) == \E j \in DOMAIN trace : trace[j].seg = seg /\ ~trace[j].ok
Called(role) == \E j \in DOMAIN calls : calls[j].role = role

BeginsWith(text, lit) == Len(text) >= Len(lit) /\ SubSeq(text, 1, Len(lit)) = lit
EndsWith(text, lit) ==
    Len(text) >= Len(lit) /\ SubSeq(text, Len(text) - Len(lit) + 1, Len(text)) = lit

\* C1: one invocation of the default print calls the write_in of Backtrace,
\* Prefix, PanicInfo (Location, then Payload) and Suffix in that order, each
\* at most once and each only after the earlier ones have returned; the writes
\* attempted follow the segment order Backtrace, Prefix, Location, Payload,
\* Suffix, and the sink holds exactly the accepted texts in that order.
C1_FixedOrder ==
    /\ \A j \in DOMAIN calls :
          calls[j].role = <<"Backtrace", "Prefix", "PanicInfo", "Suffix">>[j]
    /\ pc = "print" => Len(calls) = step - 1
    /\ \A a, b \in DOMAIN trace :
          a < b => /\ SegRank(trace[a].seg) <= SegRank(trace[b].seg)
                   /\ trace[a].seg = trace[b].seg => trace[a].seg = "Backtrace"
    /\ \A j \in DOMAIN trace :
          \E c \in DOMAIN calls :
             RoleRank(calls[c].role) = (IF SegRank(trace[j].seg) <= 3
                                        THEN SegRank(trace[j].seg)
                                        ELSE SegRank(trace[j].seg) - 1)
    /\ sink = OkTexts(trace)

C1_Witness ==
    /\ Finished /\ InPrint /\ Len(calls) = 4
    /\ \A seg \in {"Backtrace", "Prefix", "Location", "Payload", "Suffix"} : WrittenSeg(seg)

\* C2 (as stated): a failed write of a segment never prevents the attempt to
\* write a later segment; in particular a failed Location write does not
\* prevent the Payload write.
C2_Original ==
    (Finished /\ InPrint) =>
        /\ Len(calls) = 4
        /\ (FailedSeg("Location") => AttemptedSeg("Payload"))

\* C2 (amended): print calls all four write_in (Backtrace, Prefix, PanicInfo,
\* Suffix) whatever the earlier ones returned; inside a PanicInfo write_in a
\* failed Location write ends the write_in, and the Payload is not written.
C2_Swallowed ==
    /\ (Finished /\ InPrint) => Len(calls) = 4
    /\ \A j \in DOMAIN calls :
          (~calls[j].ok /\ calls[j].role # "Suffix") =>
             (j < Len(calls) \/ (pc = "print" /\ step = j + 1))
    /\ FailedSeg("Location") => ~AttemptedSeg("Payload")

C2_Witness ==
    /\ Finished /\ InPrint
    /\ FailedSeg("Prefix") /\ FailedSeg("Location") /\ WrittenSeg("Suffix")

\* C3: a handler invocation never raises a new failure, whatever writes fail.
C3_NoSecondaryFailure == pc # "aborted"

\* C4: Empty::print writes nothing and never calls writer(); a write_in of
\* Empty used as a role of another profile returns Ok and leaves the sink as
\* it was.
C4_EmptySilent ==
    /\ (handler = FormatHook(Empty) /\ pc # "idle") =>
          /\ sink = "" /\ stdout = ""
          /\ writerCalls = 0
          /\ calls = <<>> /\ trace = <<>>
          /\ pc \in {"hook", "returned"}
    /\ \A j \in DOMAIN calls :
          calls[j].impl = "Empty" => calls[j].ok /\ calls[j].after = calls[j].before

C4_Witness == handler = FormatHook(Empty) /\ Finished

\* C5 (as stated): Simple renders `Panic:` + file + `:` + line + ` - ` + payload
\* + line break.
C5_Original ==
    (handler = FormatHook(Simple) /\ Finished /\ AllOk
        /\ IsSome(info.location) /\ StringTyped(info.payload)) =>
    sink = "Panic:" \o Unwrap(info.location).file \o ":"
           \o FmtU(Unwrap(info.location).line) \o " - " \o info.payload.text \o "\n"

\* C5 (amended): Simple renders `Panic: ` (with one space) + file + `:` + line
\* + ` - ` + payload + line break; foo.rs, 42, lolka gives
\* `Panic: foo.rs:42 - lolka\n`.
C5_SimpleExact ==
    (handler = FormatHook(Simple) /\ Finished /\ AllOk
        /\ IsSome(info.location) /\ StringTyped(info.payload)) =>
    /\ sink = "Panic: " \o Unwrap(info.location).file \o ":"
              \o FmtU(Unwrap(info.location).line) \o " - " \o info.payload.text \o "\n"
    /\ (info.location = Some([file |-> "foo.rs", line |-> 42])
          /\ info.payload.text = "lolka") => sink = "Panic: foo.rs:42 - lolka\n"

C5_Witness ==
    /\ handler = FormatHook(Simple) /\ Finished /\ AllOk
    /\ info.location = Some([file |-> "foo.rs", line |-> 42])
    /\ info.payload = [ty |-> "&str", text |-> "lolka"]

\* C6 (as stated): without a location Simple renders `Panic:unknown:0 - lolka\n`
\* for payload lolka.
C6_Original ==
    (handler = FormatHook(Simple) /\ Finished /\ AllOk
        /\ info.location = None /\ info.payload = [ty |-> "&str", text |-> "lolka"]) =>
    sink = "Panic:unknown:0 - lolka\n"

\* C6 (amended): without a location the Simple location policy writes
\* `unknown:0 - ` and, that write accepted, goes on to the payload; it returns
\* Err only if a write fails; Simple renders `Panic: unknown:0 - lolka\n` for
\* payload lolka.
C6_UnknownLocation ==
    (InPrint /\ handler.profile.PanicInfo = "Simple" /\ info.location = None) =>
    /\ \A j \in DOMAIN trace :
          trace[j].seg = "Location" =>
             /\ trace[j].text = "unknown:0 - "
             /\ trace[j].ok => (j < Len(trace) /\ trace[j + 1].seg = "Payload")
    /\ \A j \in DOMAIN calls :
          calls[j].role = "PanicInfo" =>
             /\ AttemptedSeg("Location")
             /\ calls[j].ok = (WrittenSeg("Location") /\ WrittenSeg("Payload"))
             /\ calls[j].ok =>
                   calls[j].after = calls[j].before \o "unknown:0 - "
                                    \o format_payload(info.payload, <<"&str", "String">>)
    /\ (handler = FormatHook(Simple) /\ Finished /\ AllOk /\ info.payload.text = "lolka") =>
          sink = "Panic: unknown:0 - lolka\n"

C6_Witness ==
    /\ handler = FormatHook(Simple) /\ Finished /\ AllOk
    /\ info.location = None /\ info.payload = [ty |-> "&str", text |-> "lolka"]

\* C7: format_payload! gives the Display text of the payload when the payload's
\* type is among the candidates, wherever it stands in the list and whatever
\* stands before or after it, and the generic Debug text otherwise.
C7_PayloadRender ==
    IsSome(rendered) =>
        IF \E j \in DOMAIN cands : cands[j] = info.payload.ty
        THEN Unwrap(rendered) = info.payload.text
        ELSE Unwrap(rendered) = "Any"

C7_Witness ==
    /\ IsSome(rendered)
    /\ Len(cands) = 3
    /\ cands[1] # info.payload.ty /\ cands[2] = info.payload.ty /\ cands[3] # info.payload.ty

\* C8: JustError renders a string-typed payload followed by one line break,
\* and nothing else, with or without a location.
C8_JustError ==
    (handler = FormatHook(JustError) /\ Finished /\ AllOk /\ StringTyped(info.payload)) =>
    /\ sink = info.payload.text \o "\n"
    /\ info.payload.text = "oops" => sink = "oops\n"

C8_Witness ==
    /\ handler = FormatHook(JustError) /\ Finished /\ AllOk
    /\ IsSome(info.location) /\ info.payload = [ty |-> "String", text |-> "oops"]

\* the bytes Simple renders for a failure when every write is accepted
SimpleBytes(i) ==
    Texts(Simple_Prefix_write_in \o Simple_PanicInfo_write_in(i) \o Simple_Suffix_write_in)

\* the output of Debug in front of the bytes Simple renders
DebugLead == SubSeq(sink, 1, Len(sink) - Len(SimpleBytes(info)))

\* C9 (as stated): Debug's output is a non-empty stack trace segment that
\* begins with `Stack backtrace:` and ends with a line break, followed by
\* exactly the bytes of Simple.
C9_Original ==
    (handler = FormatHook(Debug) /\ Finished /\ AllOk) =>
    /\ EndsWith(sink, SimpleBytes(info))
    /\ BeginsWith(DebugLead, "Stack backtrace:")
    /\ EndsWith(DebugLead, "\n")

\* C9 (amended): built with the feature backtrace-on, Debug's output is a
\* stack trace segment that begins with `Stack backtrace:` and ends with a
\* line break, followed by exactly the bytes of Simple; built without the
\* feature, Debug's output is exactly the bytes of Simple.
C9_DebugSuperset ==
    (handler = FormatHook(Debug) /\ Finished /\ AllOk) =>
    /\ EndsWith(sink, SimpleBytes(info))
    /\ backtrace_on => /\ BeginsWith(DebugLead, "Stack backtrace:")
                       /\ EndsWith(DebugLead, "\n")
                       /\ Len(DebugLead) > Len("Stack backtrace:")
    /\ ~backtrace_on => sink = SimpleBytes(info)

C9_Witness ==
    /\ handler = FormatHook(Debug) /\ Finished /\ AllOk /\ backtrace_on
    /\ Len(DebugLead) > Len("Stack backtrace:\n")

\* C10: the hook in effect is always the handler of the latest installation
\* call; a failure is handled by that handler alone, and every piece of
\* output comes from it.
C10_LastWins ==
    /\ lastInstalled # NoHandler => hook = lastInstalled
    /\ pc # "idle" => handler = hook
    /\ (pc # "idle" /\ lastInstalled # NoHandler /\ lastInstalled.kind = "format") =>
          /\ stdout = ""
          /\ \A j \in DOMAIN calls : calls[j].impl = lastInstalled.profile[calls[j].role]
          /\ (Finished /\ AllOk /\ lastInstalled.profile.Backtrace # "Debug") =>
                sink = Texts(Prefix_write_in(lastInstalled.profile)
                             \o PanicInfo_write_in(lastInstalled.profile, info)
                             \o Suffix_write_in(lastInstalled.profile))
    /\ (pc # "idle" /\ lastInstalled # NoHandler /\ lastInstalled.kind = "message") =>
          /\ sink = "" /\ calls = <<>>
          /\ stdout # "" =>
                stdout = lastInstalled.prefix \o hook_msg(lastInstalled, info)
                         \o lastInstalled.suffix \o "\n"

C10_Witness ==
    /\ replaced /\ Finished /\ AllOk
    /\ handler.kind = "format" /\ sink # ""

====
